---- MODULE Spec2Model ----
(***************************************************************************)
(* Model of the jupyter-profiler VS Code extension (the richer variant of  *)
(* the two near-duplicate sources): the pure helpers formatTime,           *)
(* classifyCell and colorForCategory, the profileNotebook command with its *)
(* exec completion callback, the hover provider, the visible-editor        *)
(* listener and deactivate, all acting on the module-level                 *)
(* cellDecorationsMap.                                                     *)
(*                                                                         *)
(* Conventions.  A JavaScript value that may be undefined/null is an       *)
(* option: NULL (the empty tuple) or Some(v).  Numbers are integers;       *)
(* memory_delta_mb is carried in tenths of a megabyte, so the source's     *)
(* threshold 0.3 is 3 tenths.  A quotient the source computes in floating  *)
(* point is kept as an exact fraction <<numerator, denominator>> with a    *)
(* positive denominator.  A string is a sequence of one-character strings. *)
(***************************************************************************)
EXTENDS Integers, Sequences, FiniteSets, TLC

VARIABLES
    cellDecorationsMap,       \* docUri -> sequence of decorations
    hoverProviderRegistered,  \* the one-time registration flag
    activated,                \* FALSE once deactivate() has run
    inFlight,                 \* notebook -> number of exec callbacks pending
    editorDecorations,        \* what each visible editor currently displays
    lastMessage,              \* the notification shown most recently
    lastRun,                  \* history: inputs of the callback that ran last
    lastGood,                 \* history: map left by the last successful run
    hover,                    \* the last hover query and what it returned
    arg,                      \* argument of a pure-function application
    ret                       \* and its result

vars == <<cellDecorationsMap, hoverProviderRegistered, activated, inFlight,
          editorDecorations, lastMessage, lastRun, lastGood, hover, arg, ret>>

----------------------------------------------------------------------------
(* Options and exact fractions *)

NULL == <<>>

Some(v) == <<v>>

Val(x) == x[1]

\* JavaScript truthiness of an optional number: undefined, null and 0 are falsy
Falsy(x) == x = NULL \/ x = Some(0)

\* x || d
OrElse(x, d) == IF Falsy(x) THEN d ELSE Val(x)

\* q > k  and  q < k  and  q >= k  for a fraction q with positive denominator
FracGT(q, k) == q[1] > k * q[2]

FracLT(q, k) == q[1] < k * q[2]

FracGE(q, k) == q[1] >= k * q[2]

Abs(n) == IF n < 0 THEN -n ELSE n

\* Number.prototype.toFixed(2): the value in hundredths, rounded to nearest
\* (half away from zero).  The two branches compute the same quotient; the
\* first keeps large durations within 32-bit integer arithmetic.
ToFixed2(q) ==
    LET mag == IF q[2] % 200 = 0
               THEN (Abs(q[1]) + (q[2] \div 200)) \div (q[2] \div 100)
               ELSE (200 * Abs(q[1]) + q[2]) \div (2 * q[2])
    IN  IF q[1] < 0 THEN -mag ELSE mag

----------------------------------------------------------------------------
(* formatTime *)

TenthsPerMicro == 10

MicrosPerMilli == 1000

MillisPerSecond == 1000

SecondsPerMinute == 60

NotAvailable == [unit |-> "N/A", hundredths |-> 0]

formatTime_wrong_order(timeInMicroseconds) ==
    IF Falsy(timeInMicroseconds) THEN NotAvailable
    ELSE LET raw    == Val(timeInMicroseconds)
             micros == <<raw, TenthsPerMicro>>
             millis == <<raw, TenthsPerMicro * MicrosPerMilli>>
             secs   == <<raw, TenthsPerMicro * MicrosPerMilli * MillisPerSecond>>
             mins   == <<raw, TenthsPerMicro * MicrosPerMilli * MillisPerSecond
                                * SecondsPerMinute>>
         IN  IF FracGE(secs, 1) THEN [unit |-> "s", hundredths |-> ToFixed2(secs)]
             ELSE IF FracGE(mins, 1) THEN [unit |-> "min", hundredths |-> ToFixed2(mins)]
             ELSE IF FracGE(millis, 1) THEN [unit |-> "ms", hundredths |-> ToFixed2(millis)]
             ELSE [unit |-> "us", hundredths |-> ToFixed2(micros)]

formatTime(timeInMicroseconds) ==
    IF Falsy(timeInMicroseconds) THEN NotAvailable
    ELSE LET raw    == Val(timeInMicroseconds)
             micros == <<raw, TenthsPerMicro>>
             millis == <<raw, TenthsPerMicro * MicrosPerMilli>>
             secs   == <<raw, TenthsPerMicro * MicrosPerMilli * MillisPerSecond>>
             mins   == <<raw, TenthsPerMicro * MicrosPerMilli * MillisPerSecond
                                * SecondsPerMinute>>
         IN  IF FracGE(mins, 1) THEN [unit |-> "min", hundredths |-> ToFixed2(mins)]
             ELSE IF FracGE(secs, 1) THEN [unit |-> "s", hundredths |-> ToFixed2(secs)]
             ELSE IF FracGE(millis, 1) THEN [unit |-> "ms", hundredths |-> ToFixed2(millis)]
             ELSE [unit |-> "us", hundredths |-> ToFixed2(micros)]

----------------------------------------------------------------------------
(* classifyCell and colorForCategory *)

PercentCritical == 30

AvgTimeCpu == 1000

HitsLoop == 10000

AvgTimeLoop == 100

MemTenthsThreshold == 3

\* A decoded JSON object of the report: every field the code reads, each an
\* option.  Cell entries carry total_time/total_hits/percent_time/
\* memory_delta_mb/lines; line entries carry time/percent.
Obj(time, percent, total_time, total_hits, percent_time, memory_delta_mb, lines) ==
    [time |-> time, percent |-> percent, total_time |-> total_time,
     total_hits |-> total_hits, percent_time |-> percent_time,
     memory_delta_mb |-> memory_delta_mb, lines |-> lines]

classifyCell_cpu_first(cellData) ==
    LET percent_runtime  == OrElse(cellData.percent_time, 0)
        avg_time_per_hit == <<OrElse(cellData.total_time, 0),
                              OrElse(cellData.total_hits, 1)>>
        total_hits       == OrElse(cellData.total_hits, 0)
        mem_impact       == OrElse(cellData.memory_delta_mb, 0)
    IN  IF FracGT(avg_time_per_hit, AvgTimeCpu) THEN "CPU-Intensive"
        ELSE IF percent_runtime > PercentCritical THEN "Performance-Critical"
        ELSE IF total_hits > HitsLoop /\ FracLT(avg_time_per_hit, AvgTimeLoop)
             THEN "Loop-Intensive"
        ELSE IF mem_impact > MemTenthsThreshold THEN "Memory-Intensive"
        ELSE "Normal"

classifyCell(cellData) ==
    LET percent_runtime  == OrElse(cellData.percent_time, 0)
        avg_time_per_hit == <<OrElse(cellData.total_time, 0),
                              OrElse(cellData.total_hits, 1)>>
        total_hits       == OrElse(cellData.total_hits, 0)
        mem_impact       == OrElse(cellData.memory_delta_mb, 0)
    IN  IF percent_runtime > PercentCritical THEN "Performance-Critical"
        ELSE IF FracGT(avg_time_per_hit, AvgTimeCpu) THEN "CPU-Intensive"
        ELSE IF total_hits > HitsLoop /\ FracLT(avg_time_per_hit, AvgTimeLoop)
             THEN "Loop-Intensive"
        ELSE IF mem_impact > MemTenthsThreshold THEN "Memory-Intensive"
        ELSE "Normal"

colorForCategory(category) ==
    CASE category = "Performance-Critical" -> "red"
      [] category = "CPU-Intensive"        -> "orange"
      [] category = "Loop-Intensive"       -> "green"
      [] category = "Memory-Intensive"     -> "purple"
      [] OTHER                             -> "gray"

----------------------------------------------------------------------------
(* Strings: String.prototype.split('\n') and parseInt *)

NL == "\n"

RECURSIVE IndexOfNL(_, _)
\* the first position >= i of text holding a newline, or 0 when there is none
IndexOfNL(text, i) ==
    IF i > Len(text) THEN 0
    ELSE IF text[i] = NL THEN i
    ELSE IndexOfNL(text, i + 1)

RECURSIVE split(_)
\* text.split('\n'): always at least one piece, pieces hold no newline
split(text) ==
    LET i == IndexOfNL(text, 1)
    IN  IF i = 0 THEN <<text>>
        ELSE <<SubSeq(text, 1, i - 1)>> \o split(SubSeq(text, i + 1, Len(text)))

Digits == <<"0", "1", "2", "3", "4", "5", "6", "7", "8", "9">>

IsDigit(c) == \E d \in 1..10 : Digits[d] = c

DigitVal(c) == (CHOOSE d \in 1..10 : Digits[d] = c) - 1

RECURSIVE ParseDigits(_, _, _)
\* the value of the longest run of digits of str starting at i, acc so far
ParseDigits(str, i, acc) ==
    IF i > Len(str) \/ ~IsDigit(str[i]) THEN acc
    ELSE ParseDigits(str, i + 1, 10 * acc + DigitVal(str[i]))

\* parseInt(str): NULL stands for NaN.  An optional sign, then the leading
\* digits; whatever follows them is ignored; no leading digit gives NaN.
parseInt(str) ==
    LET neg   == Len(str) >= 1 /\ str[1] = "-"
        start == IF neg \/ (Len(str) >= 1 /\ str[1] = "+") THEN 2 ELSE 1
    IN  IF start > Len(str) \/ ~IsDigit(str[start]) THEN NULL
        ELSE LET n == ParseDigits(str, start, 0)
             IN  Some(IF neg THEN -n ELSE n)

----------------------------------------------------------------------------
(* The host's notebooks and the profiler's possible reports *)

\* a cell of a notebook: kind, document URI, whether cell.document and its
\* getText are there, and the source text
Cell(kind, uri, hasDocument, text) ==
    [kind |-> kind, uri |-> uri, hasDocument |-> hasDocument, text |-> text]

\* what vscode.window.activeNotebookEditor can be when the command runs:
\* nothing, an editor on a file that is not an .ipynb, or one of two notebooks
Editors == {"none", "scratch", "n1", "n2"}

IsIpynb(editor) == editor \in {"n1", "n2"}

getCells(editor) ==
    IF editor = "n1"
    THEN << Cell("Code", "A", TRUE, <<"x", "x", NL, "x", NL, "x", "x", "x">>),
            Cell("Code", "B", TRUE, <<>>) >>
    ELSE << Cell("Markup", "M", TRUE, <<"x">>),
            Cell("Code", "C", TRUE, <<"x", NL>>),
            Cell("Code", "D", FALSE, <<"x">>) >>

DocUris == {"A", "B", "C", "D", "M"}

\* line entries of a report
LineHot == Obj(Some(20000), Some(50), NULL, NULL, NULL, NULL, NULL)

LineCold == Obj(Some(5), NULL, NULL, NULL, NULL, NULL, NULL)

LineSlow == Obj(Some(2000), Some(12), NULL, NULL, NULL, NULL, NULL)

Entry(key, data) == [key |-> key, data |-> data]

\* cell entries of a report.  lines is the sequence Object.entries yields.
CellCpu ==
    Obj(NULL, NULL, Some(5000), Some(1), Some(10), NULL,
        Some(<< Entry(<<"1">>, Some(LineHot)), Entry(<<"3">>, Some(LineCold)) >>))

CellCritical ==
    Obj(NULL, NULL, Some(600000000), Some(20000), Some(35), Some(5),
        Some(<< Entry(<<"0">>, Some(LineCold)), Entry(<<"2">>, Some(LineSlow)),
                Entry(<<"1", "2">>, NULL), Entry(<<"x">>, Some(LineHot)) >>))

CellNoLines == Obj(NULL, NULL, Some(40), Some(2), Some(1), NULL, NULL)

CellNullLine ==
    Obj(NULL, NULL, Some(40), Some(2), Some(1), NULL,
        Some(<< Entry(<<"1">>, NULL) >>))

\* an element of the report's cells array: null, or one of the objects above
CellEntries == {NULL, Some(CellCpu), Some(CellCritical), Some(CellNoLines),
                Some(CellNullLine)}

\* the report file's content: bytes JSON.parse rejects, a document without a
\* cells member, or a document whose cells is an array of cell entries
Report(parsable, cells) == [parsable |-> parsable, cells |-> cells]

\* the reports the profiler writes in the state machine below
Reports ==
    { Report(FALSE, NULL),
      Report(TRUE, NULL),
      Report(TRUE, Some(<< >>)),
      Report(TRUE, Some(<< Some(CellCpu), Some(CellCritical) >>)),
      Report(TRUE, Some(<< Some(CellCritical) >>)),
      Report(TRUE, Some(<< NULL, Some(CellCpu) >>)),
      Report(TRUE, Some(<< Some(CellCpu), Some(CellNoLines) >>)),
      Report(TRUE, Some(<< Some(CellNullLine), Some(CellCpu) >>)) }

\* how the external profiler process can end: exec's error argument, and the
\* report file (NULL when fs.existsSync finds none)
ExecOutcome(error, file) == [error |-> error, file |-> file]

ExecOutcomes ==
    {ExecOutcome(TRUE, NULL), ExecOutcome(FALSE, NULL),
     ExecOutcome(TRUE, Some(Report(TRUE, Some(<<Some(CellCpu)>>))))}
        \cup {ExecOutcome(FALSE, Some(r)) : r \in Reports}

----------------------------------------------------------------------------
(* Building the decorations of one cell and of one run *)

Decoration(line, character, contentText, color) ==
    [line |-> line, character |-> character, contentText |-> contentText,
     color |-> color]

\* the two contentText templates, kept as their interpolated parts
LineText(lineData) ==
    [template |-> "line", time |-> formatTime(lineData.time),
     percent |-> IF Falsy(lineData.percent) THEN NULL
                 ELSE Some(ToFixed2(<<Val(lineData.percent), 1>>)),
     totalHits |-> NULL, category |-> ""]

SummaryText(totalTime, totalHits, category) ==
    [template |-> "summary", time |-> formatTime(Some(totalTime)),
     percent |-> NULL, totalHits |-> Some(totalHits), category |-> category]

\* lineNumber >= 0 && lineNumber < lines.length, for parseInt(key) - 1
InBounds(key, lines) ==
    /\ parseInt(key) # NULL
    /\ Val(parseInt(key)) - 1 >= 0
    /\ Val(parseInt(key)) - 1 < Len(lines)

RECURSIVE LineDecorations(_, _, _, _)
\* the forEach over Object.entries(cellData.lines) from entry i on:
\* [threw, decorations], threw when classifyCell dereferences a null entry
LineDecorations(entries, lines, i, decorations) ==
    IF i > Len(entries) THEN [threw |-> FALSE, decorations |-> decorations]
    ELSE IF ~InBounds(entries[i].key, lines)
    THEN LineDecorations(entries, lines, i + 1, decorations)
    ELSE IF entries[i].data = NULL
    THEN [threw |-> TRUE, decorations |-> decorations]
    ELSE LET lineNumber == Val(parseInt(entries[i].key)) - 1
             lineLength == Len(lines[lineNumber + 1])
             lineData   == Val(entries[i].data)
             category   == classifyCell(lineData)
             color      == colorForCategory(category)
         IN  LineDecorations(entries, lines, i + 1,
                 Append(decorations,
                        Decoration(lineNumber, lineLength, LineText(lineData), color)))

CellDecorations_no_summary(cell, cellData) ==
    LET lines == split(cell.text)
    IN  IF cellData.lines = NULL
        THEN [threw |-> TRUE, decorations |-> <<>>]
        ELSE LineDecorations(Val(cellData.lines), lines, 1, <<>>)

\* the body of the if inside the cell loop, up to cellDecorationsMap.set
CellDecorations(cell, cellData) ==
    LET lines == split(cell.text)
    IN  IF cellData.lines = NULL
        THEN [threw |-> TRUE, decorations |-> <<>>]
        ELSE LET built == LineDecorations(Val(cellData.lines), lines, 1, <<>>)
                 totalTime == OrElse(cellData.total_time, 0)
                 totalHits == OrElse(cellData.total_hits, 0)
                 category  == classifyCell(cellData)
                 color     == colorForCategory(category)
                 lastLineIndex  == Len(lines) - 1
                 lastLineLength == Len(lines[lastLineIndex + 1])
             IN  IF built.threw THEN built
                 ELSE [threw |-> FALSE,
                       decorations |->
                           Append(built.decorations,
                                  Decoration(lastLineIndex, lastLineLength,
                                             SummaryText(totalTime, totalHits, category),
                                             color))]

EmptyMap == [d \in {} |-> <<>>]

\* Map.prototype.set
MapSet(map, key, value) ==
    [d \in DOMAIN map \cup {key} |-> IF d = key THEN value ELSE map[d]]

\* profilingCells[cellIndex] for a 0-based index: NULL when out of range
At(profilingCells, cellIndex) ==
    IF cellIndex + 1 \in 1..Len(profilingCells)
    THEN profilingCells[cellIndex + 1] ELSE NULL

\* the condition under which the loop processes a cell
Processable(cell, cellData) ==
    /\ cell.kind = "Code"
    /\ cellData # NULL
    /\ cell.hasDocument

RECURSIVE CellLoop(_, _, _, _)
\* the for loop over allCells from cellIndex on: [threw, map]
CellLoop(allCells, profilingCells, cellIndex, map) ==
    IF cellIndex >= Len(allCells) THEN [threw |-> FALSE, map |-> map]
    ELSE IF profilingCells = NULL THEN [threw |-> TRUE, map |-> map]
    ELSE LET cell     == allCells[cellIndex + 1]
             cellData == At(Val(profilingCells), cellIndex)
         IN  IF ~Processable(cell, cellData)
             THEN CellLoop(allCells, profilingCells, cellIndex + 1, map)
             ELSE LET built == CellDecorations(cell, Val(cellData))
                  IN  IF built.threw THEN [threw |-> TRUE, map |-> map]
                      ELSE CellLoop(allCells, profilingCells, cellIndex + 1,
                                    MapSet(map, cell.uri, built.decorations))

\* the try block up to the end of the cell loop, started on a cleared map
TryBlock(editor, report) ==
    IF ~report.parsable THEN [threw |-> TRUE, map |-> EmptyMap]
    ELSE CellLoop(getCells(editor), report.cells, 0, EmptyMap)

----------------------------------------------------------------------------
(* The extension's state machine *)

MaxInFlight == 2

Notebooks == {e \in Editors : IsIpynb(e)}

\* the sets of documents that can be on screen at once
VisibleSets == {{}, {"A"}}

InFlightTotal == inFlight["n1"] + inFlight["n2"]

Init ==
    /\ cellDecorationsMap = EmptyMap
    /\ hoverProviderRegistered = FALSE
    /\ activated = TRUE
    /\ inFlight = [e \in Notebooks |-> 0]
    /\ editorDecorations = EmptyMap
    /\ lastMessage = "none"
    /\ lastRun = NULL
    /\ lastGood = NULL
    /\ hover = NULL
    /\ arg = NULL
    /\ ret = NULL

\* what applyDecorationsToEditor hands to editor.setDecorations for the
\* editor on docUri: the stored decorations, or none
applyDecorationsToEditor(map, docUri) ==
    IF docUri \in DOMAIN map THEN map[docUri] ELSE <<>>

\* onDidChangeVisibleTextEditors: the listener decorates every editor given
onDidChangeVisibleTextEditors(editors) ==
    /\ activated
    /\ editorDecorations' =
          [d \in editors |-> applyDecorationsToEditor(cellDecorationsMap, d)]
    /\ hover' = NULL
    /\ UNCHANGED <<cellDecorationsMap, hoverProviderRegistered, activated,
                   inFlight, lastMessage, lastRun, lastGood, arg, ret>>

\* the command handler up to the call of exec
profileNotebook(notebookEditor) ==
    /\ activated
    /\ IF notebookEditor = "none" \/ ~IsIpynb(notebookEditor)
       THEN /\ lastMessage' = "openNotebook"
            /\ UNCHANGED inFlight
       ELSE /\ InFlightTotal < MaxInFlight
            /\ inFlight' = [inFlight EXCEPT ![notebookEditor] = @ + 1]
            /\ UNCHANGED lastMessage
    /\ hover' = NULL
    /\ UNCHANGED <<cellDecorationsMap, hoverProviderRegistered, activated,
                   editorDecorations, lastRun, lastGood, arg, ret>>

\* TryBlock for every notebook and report of the model, computed once
TryResults == [e \in Notebooks, r \in Reports |-> TryBlock(e, r)]

\* what the exec callback does to the map and which message it shows, for
\* the map as it is when the callback runs
callbackEffect_clear_before_checks(outcome, notebookEditor, map) ==
    IF outcome.error
    THEN [message |-> "profilerError", map |-> map]
    ELSE IF outcome.file = NULL
    THEN [message |-> "outputNotFound", map |-> EmptyMap]
    ELSE LET tried == TryResults[notebookEditor, Val(outcome.file)]
         IN  [message |-> IF tried.threw THEN "parseFailed" ELSE "annotationsAdded",
              map |-> tried.map]

callbackEffect_no_clear(outcome, notebookEditor, map) ==
    IF outcome.error
    THEN [message |-> "profilerError", map |-> map]
    ELSE IF outcome.file = NULL
    THEN [message |-> "outputNotFound", map |-> map]
    ELSE LET tried == TryResults[notebookEditor, Val(outcome.file)]
         IN  [message |-> IF tried.threw THEN "parseFailed" ELSE "annotationsAdded",
              map |-> [d \in DOMAIN map \cup DOMAIN tried.map |->
                          IF d \in DOMAIN tried.map THEN tried.map[d] ELSE map[d]]]

callbackEffect(outcome, notebookEditor, map) ==
    IF outcome.error
    THEN [message |-> "profilerError", map |-> map]
    ELSE IF outcome.file = NULL
    THEN [message |-> "outputNotFound", map |-> map]
    ELSE LET tried == TryResults[notebookEditor, Val(outcome.file)]
         IN  [message |-> IF tried.threw THEN "parseFailed" ELSE "annotationsAdded",
              map |-> tried.map]

\* the callback exec calls when the profiler process of a run has ended
execCallback(notebookEditor, outcome) ==
    LET effect == callbackEffect(outcome, notebookEditor, cellDecorationsMap)
    IN  /\ activated
        /\ inFlight[notebookEditor] > 0
        /\ inFlight' = [inFlight EXCEPT ![notebookEditor] = @ - 1]
        /\ lastRun' = Some([editor |-> notebookEditor, outcome |-> outcome])
        /\ hover' = NULL
        /\ cellDecorationsMap' = effect.map
        /\ lastMessage' = effect.message
        /\ IF effect.message = "annotationsAdded"
           THEN /\ editorDecorations' =
                      [d \in DOMAIN editorDecorations |->
                          applyDecorationsToEditor(effect.map, d)]
                /\ hoverProviderRegistered' = TRUE
                /\ lastGood' = Some(effect.map)
           ELSE UNCHANGED <<editorDecorations, hoverProviderRegistered, lastGood>>
        /\ UNCHANGED <<activated, arg, ret>>

RECURSIVE find_last(_, _, _)
find_last(decorations, line, i) ==
    IF i > Len(decorations) THEN NULL
    ELSE LET later == find_last(decorations, line, i + 1)
         IN  IF later # NULL THEN later
             ELSE IF decorations[i].line = line THEN Some(decorations[i])
             ELSE NULL

RECURSIVE find(_, _, _)
\* decorations.find(d => d.range.start.line === line), from position i on
find(decorations, line, i) ==
    IF i > Len(decorations) THEN NULL
    ELSE IF decorations[i].line = line THEN Some(decorations[i])
    ELSE find(decorations, line, i + 1)

\* the registered provider's provideHover: NULL, or Some(contentText)
provideHover(docUri, line) ==
    IF docUri \in DOMAIN cellDecorationsMap
    THEN LET match == find(cellDecorationsMap[docUri], line, 1)
         IN  IF match # NULL THEN Some(Val(match).contentText) ELSE NULL
    ELSE NULL

MaxHoverLine == 2

\* the host asks the registered provider about a position
hoverQuery(docUri, line) ==
    /\ activated
    /\ hoverProviderRegistered
    /\ hover' = Some([docUri |-> docUri, line |-> line,
                      result |-> provideHover(docUri, line)])
    /\ UNCHANGED <<cellDecorationsMap, hoverProviderRegistered, activated,
                   inFlight, editorDecorations, lastMessage, lastRun,
                   lastGood, arg, ret>>

\* deactivate(); the extension host tears the extension down afterwards
deactivate ==
    /\ activated
    /\ activated' = FALSE
    /\ cellDecorationsMap' = EmptyMap
    /\ hover' = NULL
    /\ UNCHANGED <<hoverProviderRegistered, inFlight, editorDecorations,
                   lastMessage, lastRun, lastGood, arg, ret>>

Next ==
    \/ \E e \in Editors : profileNotebook(e)
    \/ \E e \in Notebooks, o \in ExecOutcomes : execCallback(e, o)
    \/ \E editors \in VisibleSets : onDidChangeVisibleTextEditors(editors)
    \/ \E d \in DocUris, l \in 0..MaxHoverLine : hoverQuery(d, l)
    \/ deactivate

Spec == Init /\ [][Next]_vars

----------------------------------------------------------------------------
(* Specifications that apply the pure helpers to drawn inputs *)

MaxSmallDuration == 25

\* raw durations: small ones of either sign, and the ones around each threshold
FormatInputs ==
    {NULL} \cup {Some(n) : n \in (-MaxSmallDuration)..MaxSmallDuration}
           \cup {Some(n) : n \in {9999, 10000, 10001, 9999999, 10000000, 10000001,
                                  599999999, 600000000, 600000001, 1200000000}}

PureInit(inputs) ==
    /\ cellDecorationsMap = EmptyMap
    /\ hoverProviderRegistered = FALSE
    /\ activated = TRUE
    /\ inFlight = [e \in Notebooks |-> 0]
    /\ editorDecorations = EmptyMap
    /\ lastMessage = "none"
    /\ lastRun = NULL
    /\ lastGood = NULL
    /\ hover = NULL
    /\ arg \in inputs
    /\ ret = NULL

PureFrame ==
    UNCHANGED <<cellDecorationsMap, hoverProviderRegistered, activated, inFlight,
                editorDecorations, lastMessage, lastRun, lastGood, hover, arg>>

InitFormat == PureInit(FormatInputs)

applyFormatTime ==
    /\ ret = NULL
    /\ ret' = Some(formatTime(arg))
    /\ PureFrame

NextFormat == applyFormatTime

SpecFormat == InitFormat /\ [][NextFormat]_vars

\* statistics records: each field absent or a value on either side of the
\* thresholds; total_hits is a non-negative integer as in the report format
ClassifyInputs ==
    {Obj(NULL, NULL, tt, th, pt, mem, NULL) :
        tt  \in {NULL, Some(0), Some(500), Some(1000), Some(1001), Some(5000),
                 Some(1999999), Some(2000000), Some(20000001)},
        th  \in {NULL, Some(0), Some(1), Some(2), Some(10000), Some(10001),
                 Some(20000)},
        pt  \in {NULL, Some(0), Some(30), Some(31), Some(35)},
        mem \in {NULL, Some(0), Some(3), Some(4)}}

InitClassify == PureInit(ClassifyInputs)

applyClassifyCell ==
    /\ ret = NULL
    /\ ret' = Some(classifyCell(arg))
    /\ PureFrame

NextClassify == applyClassifyCell

SpecClassify == InitClassify /\ [][NextClassify]_vars

\* overlapping runs: every command is issued before any callback has run
NextOverlap ==
    \/ \E e \in Editors : lastRun = NULL /\ profileNotebook(e)
    \/ \E e \in Notebooks, o \in ExecOutcomes : execCallback(e, o)

SpecOverlap == Init /\ [][NextOverlap]_vars

----------------------------------------------------------------------------
(* Properties *)

InFlightSum(f) == f["n1"] + f["n2"]

\* a step in which an exec callback ran
CallbackStep == lastRun' # NULL /\ InFlightSum(inFlight') < InFlightSum(inFlight)

\* the last callback wrote the map, so every entry of the map is its work
LastRunWroteMap ==
    /\ activated
    /\ lastRun # NULL
    /\ lastMessage \in {"annotationsAdded", "parseFailed"}

LastEditor == Val(lastRun).editor

LastReport == Val(Val(lastRun).outcome.file)

Malformed(report) == ~report.parsable \/ report.cells = NULL

\* C1: a run whose report file exists but cannot be parsed, or has no cells
\* sequence, ends with the failure notification and leaves the store holding
\* exactly the entries it held before the run.
C1_MalformedReportKeepsStore ==
    [][(/\ CallbackStep
        /\ ~Val(lastRun').outcome.error
        /\ Val(lastRun').outcome.file # NULL
        /\ Malformed(Val(Val(lastRun').outcome.file)))
       => (/\ lastMessage' = "parseFailed"
           /\ cellDecorationsMap' = cellDecorationsMap)]_vars

\* C2: a run whose profiler process reports an error, or whose report file
\* does not exist, aborts with a notification and leaves the store unchanged;
\* nothing is built or displayed by that run.
C2_AbortKeepsStore ==
    [][(/\ CallbackStep
        /\ (Val(lastRun').outcome.error \/ Val(lastRun').outcome.file = NULL))
       => (/\ lastMessage' = (IF Val(lastRun').outcome.error
                              THEN "profilerError" ELSE "outputNotFound")
           /\ cellDecorationsMap' = cellDecorationsMap
           /\ editorDecorations' = editorDecorations
           /\ lastGood' = lastGood
           /\ hoverProviderRegistered' = hoverProviderRegistered)]_vars

C2_Witness ==
    /\ lastRun # NULL
    /\ ~Val(lastRun).outcome.error
    /\ Val(lastRun).outcome.file = NULL
    /\ lastMessage = "outputNotFound"
    /\ cellDecorationsMap # EmptyMap

\* the cells the claim says a successful run stores
ClaimedDocs(editor, report) ==
    LET cells   == getCells(editor)
        entries == Val(report.cells)
    IN  {cells[i].uri : i \in {j \in 1..Len(cells) :
                                  /\ cells[j].kind = "Code"
                                  /\ j <= Len(entries)
                                  /\ entries[j] # NULL
                                  /\ cells[j].hasDocument}}

\* C3: after a successful run the documents in the store are exactly the
\* cells of that run's notebook that are code cells, have a report entry at
\* their position and expose source text; nothing of an earlier run remains.
C3_StoreIsLastRunsCells ==
    (activated /\ lastRun # NULL /\ lastMessage = "annotationsAdded")
        => DOMAIN cellDecorationsMap = ClaimedDocs(LastEditor, LastReport)

C3_Witness ==
    /\ activated /\ lastRun # NULL /\ lastMessage = "annotationsAdded"
    /\ LastEditor = "n1"
    /\ LastReport.cells = Some(<< NULL, Some(CellCpu) >>)
    /\ DOMAIN cellDecorationsMap = {"B"}

\* absent fields count as 0
ZeroIfAbsent(x) == IF x = NULL THEN 0 ELSE Val(x)

Max(a, b) == IF a >= b THEN a ELSE b

Categories == {"Performance-Critical", "CPU-Intensive", "Loop-Intensive",
               "Memory-Intensive", "Normal"}

\* the five-rule table as the claim words it
ClaimedCategory(stats) ==
    LET average == <<ZeroIfAbsent(stats.total_time),
                     Max(ZeroIfAbsent(stats.total_hits), 1)>>
    IN  CASE ZeroIfAbsent(stats.percent_time) > 30 -> "Performance-Critical"
          [] /\ ~(ZeroIfAbsent(stats.percent_time) > 30)
             /\ FracGT(average, 1000) -> "CPU-Intensive"
          [] /\ ~(ZeroIfAbsent(stats.percent_time) > 30)
             /\ ~FracGT(average, 1000)
             /\ ZeroIfAbsent(stats.total_hits) > 10000
             /\ FracLT(average, 100) -> "Loop-Intensive"
          [] /\ ~(ZeroIfAbsent(stats.percent_time) > 30)
             /\ ~FracGT(average, 1000)
             /\ ~(ZeroIfAbsent(stats.total_hits) > 10000 /\ FracLT(average, 100))
             /\ ZeroIfAbsent(stats.memory_delta_mb) > 3 -> "Memory-Intensive"
          [] OTHER -> "Normal"

\* C4: classify returns exactly one of the five categories, the one of the
\* first matching rule of the table; percent_time > 30 gives
\* Performance-Critical whatever the other fields are.
C4_ClassifyFollowsTable ==
    ret # NULL =>
        /\ Val(ret) \in Categories
        /\ Val(ret) = ClaimedCategory(arg)
        /\ (ZeroIfAbsent(arg.percent_time) > 30 => Val(ret) = "Performance-Critical")

C4_Witness ==
    /\ arg.percent_time = Some(35)
    /\ arg.total_time = Some(5000)
    /\ arg.total_hits = Some(1)
    /\ arg.memory_delta_mb = Some(4)
    /\ ret = Some("Performance-Critical")

\* the 0-based index a lines key converts to, NULL when it is no number
KeyIndex(key) == IF parseInt(key) = NULL THEN NULL ELSE Some(Val(parseInt(key)) - 1)

KeyInRange(key, lineCount) ==
    KeyIndex(key) # NULL /\ Val(KeyIndex(key)) \in 0..(lineCount - 1)

\* the cell of the last run's notebook whose document is docUri
CellOf(docUri) ==
    LET cells == getCells(LastEditor)
    IN  CHOOSE i \in 1..Len(cells) : cells[i].uri = docUri

\* the entries of the lines map of the report entry for docUri, in map order
LinesOf(docUri) == Val(Val(Val(LastReport.cells)[CellOf(docUri)]).lines)

SourceLinesOf(docUri) == split(getCells(LastEditor)[CellOf(docUri)].text)

RECURSIVE KeepInRange(_, _)
KeepInRange(entries, lineCount) ==
    IF entries = <<>> THEN <<>>
    ELSE IF KeyInRange(Head(entries).key, lineCount)
    THEN <<Head(entries)>> \o KeepInRange(Tail(entries), lineCount)
    ELSE KeepInRange(Tail(entries), lineCount)

\* C5: the records stored for a processed cell are one line record per
\* in-range entry of the report's lines map, each anchored at (index, length
\* of that line), then exactly one cell-summary record, last, anchored at
\* (lineCount-1, length of the last line); so there are at most as many line
\* records as entries, and as many exactly when no entry is out of range.
C5_RecordsOfProcessedCell ==
    LastRunWroteMap =>
        \A d \in DOMAIN cellDecorationsMap :
            LET stored    == cellDecorationsMap[d]
                src       == SourceLinesOf(d)
                lineCount == Len(src)
                entries   == LinesOf(d)
                kept      == KeepInRange(entries, lineCount)
            IN  /\ Len(stored) = Len(kept) + 1
                /\ \A k \in 1..Len(kept) :
                      /\ stored[k].contentText.template = "line"
                      /\ stored[k].line = Val(KeyIndex(kept[k].key))
                      /\ stored[k].character = Len(src[stored[k].line + 1])
                /\ stored[Len(stored)].contentText.template = "summary"
                /\ stored[Len(stored)].line = lineCount - 1
                /\ stored[Len(stored)].character = Len(src[lineCount])
                /\ Len(stored) - 1 <= Len(entries)
                /\ (Len(stored) - 1 = Len(entries)
                      <=> \A k \in 1..Len(entries) :
                              KeyInRange(entries[k].key, lineCount))

C5_Witness ==
    /\ LastRunWroteMap
    /\ LastEditor = "n1"
    /\ "A" \in DOMAIN cellDecorationsMap
    /\ "B" \in DOMAIN cellDecorationsMap
    /\ Len(LinesOf("A")) = 2 /\ Len(cellDecorationsMap["A"]) = 3
    /\ Len(LinesOf("B")) = 4 /\ Len(cellDecorationsMap["B"]) = 1

\* a report entry with nothing missing: a lines map without a null entry
CompleteEntry(cellData) ==
    /\ cellData.lines # NULL
    /\ \A k \in 1..Len(Val(cellData.lines)) : Val(cellData.lines)[k].data # NULL

\* C6: when the report parses, a cell entry or line entry that lacks data is
\* skipped silently: the run is reported successful, and every other
\* processable cell has its annotations in the store.
C6_SchemaGapStillSucceeds ==
    (LastRunWroteMap /\ ~Malformed(LastReport)) =>
        /\ lastMessage = "annotationsAdded"
        /\ \A d \in ClaimedDocs(LastEditor, LastReport) :
              CompleteEntry(Val(Val(LastReport.cells)[CellOf(d)]))
                  => d \in DOMAIN cellDecorationsMap

\* the unit the claim names for a raw duration, thresholds in microseconds
ClaimedUnit(rawDuration) ==
    IF rawDuration = NULL \/ rawDuration = Some(0) THEN "N/A"
    ELSE LET micros == <<Val(rawDuration), 10>>
         IN  IF FracGE(micros, 60000000) THEN "min"
             ELSE IF FracGE(micros, 1000000) THEN "s"
             ELSE IF FracGE(micros, 1000) THEN "ms"
             ELSE "us"

\* C7: format gives "N/A" for an absent, null or 0 input; otherwise the unit
\* of the first threshold the value divided by 10 reaches (minutes, seconds,
\* milliseconds, else microseconds); format(10000) is "1.00 ms" and
\* format(600000000) is "1.00 min".
C7_FormatTimeUnits ==
    ret # NULL =>
        /\ Val(ret).unit = ClaimedUnit(arg)
        /\ (arg = Some(10000) => Val(ret) = [unit |-> "ms", hundredths |-> 100])
        /\ (arg = Some(600000000) => Val(ret) = [unit |-> "min", hundredths |-> 100])

C7_Witness ==
    /\ arg = Some(600000000)
    /\ ret = Some([unit |-> "min", hundredths |-> 100])

\* a line entry read the way the claim says: percent in the role of
\* percent_time, time in the role of total_time
LineAsStats(lineData) ==
    [lineData EXCEPT !.percent_time = lineData.percent,
                     !.total_time = lineData.time]

\* C8: every line record's colour is the colour of the category the
\* five-rule table gives the line's own percent and time.
C8_LineColorFollowsLineStats ==
    LastRunWroteMap =>
        \A d \in DOMAIN cellDecorationsMap :
            LET kept == KeepInRange(LinesOf(d), Len(SourceLinesOf(d)))
            IN  \A k \in 1..Len(kept) :
                   k < Len(cellDecorationsMap[d]) =>
                      cellDecorationsMap[d][k].color =
                          colorForCategory(classifyCell(LineAsStats(Val(kept[k].data))))

\* C9: when runs overlap, once every callback has run the store is the map
\* built by the most recent run that completed successfully, whatever the
\* runs that failed after it.
C9_LastSuccessfulRunWins ==
    (activated /\ InFlightTotal = 0 /\ lastGood # NULL)
        => cellDecorationsMap = Val(lastGood)

\* the positions of the records of docUri anchored at line
AnchoredAt(docUri, line) ==
    {k \in 1..Len(cellDecorationsMap[docUri]) :
        cellDecorationsMap[docUri][k].line = line}

Min(S) == CHOOSE m \in S : \A n \in S : m <= n

HoverAsClaimed ==
    hover # NULL =>
        LET q == Val(hover)
        IN  /\ q.result = NULL
               <=> (\/ q.docUri \notin DOMAIN cellDecorationsMap
                    \/ AnchoredAt(q.docUri, q.line) = {})
            /\ q.result # NULL =>
                  /\ Val(q.result) =
                        cellDecorationsMap[q.docUri][Min(AnchoredAt(q.docUri, q.line))].contentText
                  /\ Val(q.result).template = "summary" =>
                        \A k \in AnchoredAt(q.docUri, q.line) :
                            cellDecorationsMap[q.docUri][k].contentText.template # "line"

\* C10: a hover query returns nothing exactly when the store has no entry for
\* the document or no record anchored at the line; otherwise the text of the
\* earliest record anchored there, so the summary shows on the last line only
\* when no line record is anchored there; the query never changes the store.
C10_HoverReturnsEarliest ==
    /\ []HoverAsClaimed
    /\ [][(hover' # NULL /\ hover' # hover)
            => cellDecorationsMap' = cellDecorationsMap]_vars

C10_Witness ==
    /\ hover # NULL
    /\ Val(hover).docUri = "A"
    /\ Val(hover).line = 2
    /\ "A" \in DOMAIN cellDecorationsMap
    /\ Cardinality(AnchoredAt("A", 2)) = 2
    /\ Val(hover).result # NULL
    /\ Val(Val(hover).result).template = "line"

====
